---- MODULE Spec2Model ----
(***************************************************************************)
(* Model of wall-street-wolf: the position ledger (AccountState), the      *)
(* order watcher task with its supervisor (LiveOrderWatcher), the market   *)
(* session ticker (Ticker) and the strategy / liquidation loop (main,      *)
(* watch_all, sell_all_positions).                                         *)
(***************************************************************************)
EXTENDS Integers, Sequences, FiniteSets, Bags, TLC

\* ------------------------------------------------------------------ bounds
MaxTime   == 6    \* wall clock values 0..MaxTime
MaxQty    == 1    \* largest filled_quantity of one order update
MaxOwned  == 2    \* largest owned quantity kept in the ledger
MaxTasks  == 2    \* watcher tasks spawned over the process lifetime
MaxIterations == 2       \* iterations of main's loop, with a full watch list
MaxTickerIterations == 4 \* iterations of main's loop, with an empty watch list

MaxTickerLen == 4        \* characters of a raw ticker

\* ------------------------------------------------------- value domains
Symbols == {"AMD", "MSFT"}

\* apca order::Status, and the statuses Status::is_terminal() accepts
Statuses == {"new", "partially_filled", "filled", "canceled", "rejected"}

is_terminal(status) == status \in {"filled", "canceled", "rejected"}

\* average_fill_price: 0 stands for None (unwrap_or_default)
FillPrices == {0, 3}

\* an order update of the feed (res.order)
Events ==
    [symbol : Symbols, status : Statuses,
     filled_quantity : 0..MaxQty, average_fill_price : FillPrices]

\* callers of LiveBackend::open_if_closed: the main loop and two more tasks
Callers == {"main", "c1", "c2"}

VARIABLES
    positions,   \* AccountState.positions: map Symbol -> Position
    snapshot,    \* symbols of the broker's REST snapshot the ledger was built from
    terminal_filled, \* per symbol: filled_quantity summed over the terminal updates applied
    errors_seen, \* error items the watcher has taken from the stream
    now,         \* Instant::now() / Utc::now()
    tasks,       \* watcher tasks ever spawned: "spawned" | "running" | "finished"
    handle,      \* LiveOrderWatcher.handle: index into tasks
    mutex,       \* LiveBackend.watcher Mutex: its holder, or "free"
    pc,          \* position of every caller
    ticker,      \* Ticker: clock, open_and_ready, and the interval's next deadline
    about_to_close, \* the local of wait_for_open_or_tick
    status,      \* the MarketStatus the last scheduling decision returned
    fetches,     \* clock_now() requests the broker has served
    about_at,    \* value of fetches when AboutToClose was last returned
    iterations_left, \* iterations of main's loop still to be started
    watch,       \* main's watch list
    to_filter,   \* watch_all: the part of the watch list the filter has not seen
    symbols,     \* watch_all: the filtered symbols
    all_bars,    \* watch_all: keys of all_bars not yet iterated
    cycle_now,   \* watch_all: the local now
    cloned,      \* sell_all_positions: account.positions.clone(), owned per symbol
    to_sell,     \* sell_all_positions: keys of the clone not yet iterated
    sent,        \* order requests the running handler has sent so far
    orders,      \* bag of submitted orders whose terminal update the watcher has not applied
    raw_ticker,  \* the value handed to Symbol::from, as its characters
    converted    \* the Symbol that Symbol::from returned for raw_ticker

ledgerVars == <<positions, snapshot, terminal_filled, errors_seen>>
taskVars   == <<tasks, handle, mutex>>
tickerVars == <<ticker, about_to_close, status, fetches, about_at, iterations_left>>
cycleVars  == <<watch, to_filter, symbols, all_bars, cycle_now, cloned, to_sell, sent>>
symbolVars == <<raw_ticker, converted>>

vars == <<positions, snapshot, terminal_filled, errors_seen, now, tasks, handle, mutex, pc,
          ticker, about_to_close, status, fetches, about_at, iterations_left,
          watch, to_filter, symbols, all_bars, cycle_now, cloned, to_sell, sent, orders,
          raw_ticker, converted>>

\* ---------------------------------------------------------- Symbol::from
\* characters a raw ticker is written with; "." is the one that is not alphabetic
Chars == {"B", "C", "H", "S", "T", "."}

is_alphabetic(ch) == ch # "."

\* the entries of KNOWN_CRYPTOS that can be written with Chars: BTC and BCH
KNOWN_CRYPTOS == { <<"B", "T", "C">>, <<"B", "C", "H">> }

RECURSIVE SeqsUpTo(_)
SeqsUpTo(n) ==
    IF n = 0 THEN { <<>> }
    ELSE SeqsUpTo(n - 1) \cup
         { Append(t, ch) : t \in { u \in SeqsUpTo(n - 1) : Len(u) = n - 1 }, ch \in Chars }

\* the strings a caller may hand to Symbol::from
RawTickers == SeqsUpTo(MaxTickerLen)

\* value.retain(|ch| ch.is_alphabetic())
retain(value) == SelectSeq(value, is_alphabetic)

\* str::contains: pattern occurs in value as a substring
contains(value, pattern) ==
    \E i \in 0..(Len(value) - Len(pattern)) :
        SubSeq(value, i + 1, i + Len(pattern)) = pattern

Symbol_from(value) ==
    LET retained == retain(value)
    IN  IF \E known \in KNOWN_CRYPTOS : contains(retained, known)
        THEN [kind |-> "Crypto", ticker |-> retained]
        ELSE [kind |-> "Stock", ticker |-> retained]

\* no conversion has returned yet
NotConverted == [kind |-> "none", ticker |-> <<>>]

NoConversion == raw_ticker = <<>> /\ converted = NotConverted

\* a call of Symbol::from(raw_ticker) returns
SymbolFrom ==
    /\ converted = NotConverted
    /\ converted' = Symbol_from(raw_ticker)
    /\ UNCHANGED <<ledgerVars, now, taskVars, pc, tickerVars, cycleVars, orders,
                   raw_ticker>>

\* ------------------------------------------------------------ the ledger
Position(owned, price, ts, oip) ==
    [owned |-> owned, buy_in_price |-> price, timestamp |-> ts,
     order_in_progress |-> oip]

\* LiveBackend::new: one entry per held position (quantity and current price
\* not zero), order_in_progress = false
SnapshotLedgers(t) ==
    UNION { [held -> { Position(q, p, t, FALSE) : q \in 1..MaxQty, p \in FillPrices \ {0} }]
            : held \in SUBSET Symbols }

\* the ledgers the watcher makes of them: or_insert_with stores any quantity,
\* price and flag an update carries, and_modify adds to the quantity
Ledgers(t) ==
    UNION { [held -> { Position(q, p, t, f) :
                         q \in 0..MaxOwned, p \in FillPrices, f \in BOOLEAN }]
            : held \in SUBSET Symbols }

and_modify_any_status(pos, e, t) ==
    LET flagged == [pos EXCEPT !.order_in_progress = is_terminal(e.status),
                               !.timestamp = t]
    IN  IF is_terminal(e.status)
        THEN [flagged EXCEPT !.owned = pos.owned + e.filled_quantity,
                             !.buy_in_price = e.average_fill_price]
        ELSE flagged

and_modify_torn(pos, e, t) ==
    IF is_terminal(e.status)
    THEN [pos EXCEPT !.owned = pos.owned + e.filled_quantity]
    ELSE pos

\* the closure given to Entry::and_modify
and_modify(pos, e, t) ==
    LET flagged == [pos EXCEPT !.order_in_progress = is_terminal(e.status)]
    IN  IF is_terminal(e.status)
        THEN [flagged EXCEPT !.owned = pos.owned + e.filled_quantity,
                             !.buy_in_price = e.average_fill_price,
                             !.timestamp = t]
        ELSE flagged

\* the closure given to Entry::or_insert_with
or_insert_with(e, t) ==
    Position(e.filled_quantity, e.average_fill_price, t, is_terminal(e.status))

entry_upsert_pruning(ledger, e, t) ==
    LET keep == { s \in DOMAIN ledger : s # e.symbol \/ e.filled_quantity # 0 }
    IN  [s \in keep |-> IF s = e.symbol THEN and_modify(ledger[s], e, t) ELSE ledger[s]]

\* positions.entry(symbol).and_modify(..).or_insert_with(..)
entry_upsert(ledger, e, t) ==
    IF e.symbol \in DOMAIN ledger
    THEN [ledger EXCEPT ![e.symbol] = and_modify(ledger[e.symbol], e, t)]
    ELSE [s \in DOMAIN ledger \cup {e.symbol} |->
            IF s = e.symbol THEN or_insert_with(e, t) ELSE ledger[s]]

\* ------------------------------------------------------ the watcher task
is_finished_inverted(h) == tasks[h] # "finished"

is_finished(h) == tasks[h] = "finished"

\* a panic of the main task ends the process, and every task with it
Alive == pc["main"] # "panicked"

LiveTasks == { t \in 1..Len(tasks) : tasks[t] # "finished" }

\* client.subscribe().await.unwrap(): the stream opens, or the task panics
WatcherSubscribe(t) ==
    /\ Alive
    /\ tasks[t] = "spawned"
    /\ \/ tasks' = [tasks EXCEPT ![t] = "running"]
       \/ /\ Len(tasks) < MaxTasks
          /\ tasks' = [tasks EXCEPT ![t] = "finished"]
    /\ UNCHANGED <<symbolVars, ledgerVars, now, handle, mutex, pc, tickerVars, cycleVars, orders>>

\* Some(Ok(Ok(res))) = stream.next().await
WatcherApply(t, e) ==
    /\ Alive
    /\ tasks[t] = "running"
    /\ e.symbol \in DOMAIN positions
          => positions[e.symbol].owned + e.filled_quantity <= MaxOwned
    /\ positions' = entry_upsert(positions, e, now)
    /\ UNCHANGED <<symbolVars, snapshot, errors_seen, now, taskVars, pc, tickerVars, cycleVars>>

\* an update of any order of the account (also of orders placed outside this
\* process), with the feed's history kept in terminal_filled
FeedEvent(t) ==
    \E e \in Events :
        /\ WatcherApply(t, e)
        /\ terminal_filled[e.symbol] + e.filled_quantity <= MaxOwned
        /\ terminal_filled' =
              IF is_terminal(e.status)
              THEN [terminal_filled EXCEPT ![e.symbol] = @ + e.filled_quantity]
              ELSE terminal_filled
        /\ UNCHANGED orders

MaxErrors == 2   \* error items of the stream

ErrorLevels == {"stream", "message"}

on_feed_error_fatal(t) == [tasks EXCEPT ![t] = "finished"]

\* the Err arms: tracing::error!, and the loop goes on
on_feed_error(t) == tasks

\* Some(Err(why)) or Some(Ok(Err(why))) = stream.next().await
FeedError(t, level) ==
    /\ Alive
    /\ tasks[t] = "running"
    /\ errors_seen < MaxErrors
    /\ errors_seen' = errors_seen + 1
    /\ tasks' = on_feed_error(t)
    /\ UNCHANGED <<symbolVars, positions, snapshot, terminal_filled, now, handle, mutex, pc,
                   tickerVars, cycleVars, orders>>

Min(a, b) == IF a < b THEN a ELSE b
Max(a, b) == IF a > b THEN a ELSE b

\* an update of one of the orders this process submitted; a terminal update ends it
OrderEvent(t) ==
    \E o \in BagToSet(orders), st \in Statuses, p \in FillPrices :
      \E q \in 0..Min(o.qty, MaxQty) :
        /\ (q = 0) = (p = 0)
        /\ WatcherApply(t, [symbol |-> o.symbol, status |-> st,
                            filled_quantity |-> q, average_fill_price |-> p])
        /\ orders' = IF is_terminal(st) THEN orders (-) SetToBag({o}) ELSE orders
        /\ UNCHANGED terminal_filled

\* None = stream.next().await: the loop ends, the task returns
WatcherStreamEnd(t) ==
    /\ Alive
    /\ tasks[t] = "running"
    /\ Len(tasks) < MaxTasks
    /\ tasks' = [tasks EXCEPT ![t] = "finished"]
    /\ UNCHANGED <<symbolVars, ledgerVars, now, handle, mutex, pc, tickerVars, cycleVars, orders>>

\* ------------------------------------------- LiveBackend::open_if_closed
\* main's backend.open().await: LiveBackend's open is its open_if_closed
backend_open == "oic_lock"

after_open_without_cycle(c) == IF c = "main" THEN "wait" ELSE "idle"

\* where a caller goes on after open_if_closed: main runs watch_all
AfterOpen(c) == IF c = "main" THEN "watch_all" ELSE "idle"

lock_unguarded(c) == TRUE

\* tokio::sync::Mutex: the lock is granted when no task holds it
lock_granted(c) == mutex = "free"

\* self.watcher.lock().await
OicLock(c) ==
    /\ pc[c] = "oic_lock"
    /\ lock_granted(c)
    /\ mutex' = c
    /\ pc' = [pc EXCEPT ![c] = "oic_check"]
    /\ UNCHANGED <<symbolVars, ledgerVars, now, tasks, handle, tickerVars, cycleVars, orders>>

\* if self.handle.is_finished()
OicCheck(c) ==
    /\ pc[c] = "oic_check"
    /\ pc' = [pc EXCEPT ![c] = IF is_finished(handle) THEN "oic_new" ELSE "oic_unlock"]
    /\ UNCHANGED <<symbolVars, ledgerVars, now, taskVars, tickerVars, cycleVars, orders>>

\* *self = Self::new(inner).await
OicNew(c) ==
    /\ pc[c] = "oic_new"
    /\ tasks' = Append(tasks, "spawned")
    /\ handle' = Len(tasks) + 1
    /\ pc' = [pc EXCEPT ![c] = "oic_unlock"]
    /\ UNCHANGED <<symbolVars, ledgerVars, now, mutex, tickerVars, cycleVars, orders>>

\* the MutexGuard is dropped
OicUnlock(c) ==
    /\ pc[c] = "oic_unlock"
    /\ mutex' = "free"
    /\ pc' = [pc EXCEPT ![c] = AfterOpen(c)]
    /\ UNCHANGED <<symbolVars, ledgerVars, now, tasks, handle, tickerVars, cycleVars, orders>>

\* a task other than the main loop calls open_if_closed
OicCall(c) ==
    /\ c # "main"
    /\ pc[c] = "idle"
    /\ pc' = [pc EXCEPT ![c] = "oic_lock"]
    /\ UNCHANGED <<symbolVars, ledgerVars, now, taskVars, tickerVars, cycleVars, orders>>

\* ------------------------------------------------------------------ time
\* time passes while the main loop works or awaits the broker; the ticker's own
\* waits (tick, sleep) move the time themselves
Advance ==
    /\ Alive
    /\ pc["main"] \notin {"wait", "tick", "sleep_close", "sleep_open"}
    /\ now < MaxTime
    /\ now' = now + 1
    /\ UNCHANGED <<symbolVars, ledgerVars, taskVars, pc, tickerVars, cycleVars, orders>>

\* ------------------------------------------------------------ the broker
\* clock::Get: a closed market opens within OpenIn, an open one closes within
\* SessionLens; the next open of an open market is the following day's
OpenIn      == {0, 2}
SessionLens == {3, 5}

BrokerClocks(t) ==
    { [open |-> FALSE, next_open |-> t + d, next_close |-> t + d + l]
        : d \in OpenIn, l \in SessionLens }
    \cup
    { [open |-> TRUE, next_open |-> t + l + 2, next_close |-> t + l]
        : l \in SessionLens }

\* a request of the main loop other than an order submission fails: .unwrap() panics
BrokerFailure ==
    /\ pc["main"] \in {"fetch", "fetch_data", "liq_cancel", "stats"}
    /\ pc' = [pc EXCEPT !["main"] = "panicked"]
    /\ UNCHANGED <<symbolVars, ledgerVars, now, taskVars, tickerVars, cycleVars, orders>>

\* ------------------------------------------------------------ the ticker
Period == 2     \* the tick period, in time units
Margin == 1     \* the second added to the sleep until next_close

TickerNewReady(t) ==
    { [clock |-> c, open_and_ready |-> TRUE, deadline |-> t] : c \in BrokerClocks(t) }

\* Ticker::new: the interval's first tick is due at once
TickerNew(t) ==
    { [clock |-> c, open_and_ready |-> c.open, deadline |-> t] : c \in BrokerClocks(t) }

is_about_to_close_no_lead(clock, t) == clock.next_close - t <= 0

\* time_left <= self.interval.period() * 2
is_about_to_close(clock, t) == clock.next_close - t <= Period * 2

closing_flag_kept(tk) == tk

\* self.open_and_ready = false
closing(tk) == [tk EXCEPT !.open_and_ready = FALSE]

\* the stored clock says a session is running
in_session(clock, t) == (clock.open \/ clock.next_open < t) /\ t < clock.next_close

\* MissedTickBehavior::Skip: the deadline after a tick that completed at t
next_timeout(timeout, t) ==
    IF t > timeout THEN t + Period - ((t - timeout) % Period) ELSE timeout + Period

\* wait_for_open_or_tick up to its first await
TickerCall ==
    /\ pc["main"] = "wait"
    /\ iterations_left > 0
    /\ iterations_left' = iterations_left - 1
    /\ IF ticker.open_and_ready
       THEN IF ticker.clock.next_close < now
            THEN \* to_std() of a negative duration: unwrap panics
                 /\ pc' = [pc EXCEPT !["main"] = "panicked"]
                 /\ UNCHANGED about_to_close
            ELSE /\ about_to_close' = is_about_to_close(ticker.clock, now)
                 /\ pc' = [pc EXCEPT !["main"] = "tick"]
       ELSE /\ pc' = [pc EXCEPT !["main"] =
                    IF in_session(ticker.clock, now) THEN "sleep_close" ELSE "fetch"]
            /\ UNCHANGED about_to_close
    /\ UNCHANGED <<symbolVars, ledgerVars, now, taskVars, ticker, status, fetches, about_at,
                   cycleVars, orders>>

\* self.interval.tick().await, and the return of the open path
Tick ==
    /\ pc["main"] = "tick"
    /\ now' = Max(now, ticker.deadline)
    /\ now' <= MaxTime
    /\ IF about_to_close
       THEN /\ ticker' = closing([ticker EXCEPT !.deadline = next_timeout(@, now')])
            /\ status' = "AboutToClose"
            /\ about_at' = fetches
            /\ pc' = [pc EXCEPT !["main"] = "liq_cancel"]
       ELSE /\ ticker' = [ticker EXCEPT !.deadline = next_timeout(@, now')]
            /\ status' = "Open"
            /\ about_at' = about_at
            /\ pc' = [pc EXCEPT !["main"] = backend_open]
    /\ UNCHANGED <<symbolVars, ledgerVars, taskVars, about_to_close, fetches, iterations_left,
                   cycleVars, orders>>

\* tokio::time::sleep(time_left).await, time_left = next_close - now + 1 s
SleepClose ==
    /\ pc["main"] = "sleep_close"
    /\ now' = Max(now, ticker.clock.next_close + Margin)
    /\ now' <= MaxTime
    /\ pc' = [pc EXCEPT !["main"] = "fetch"]
    /\ UNCHANGED <<symbolVars, ledgerVars, taskVars, tickerVars, cycleVars, orders>>

after_fetch_unchecked(c) == "sleep_open"

\* assert!(!self.clock.open)
after_fetch(c) == IF c.open THEN "panicked" ELSE "sleep_open"

\* self.clock = backend.clock_now().await; assert!(!self.clock.open)
Fetch ==
    /\ pc["main"] = "fetch"
    /\ \E c \in BrokerClocks(now) :
         /\ ticker' = [ticker EXCEPT !.clock = c]
         /\ pc' = [pc EXCEPT !["main"] = after_fetch(c)]
    /\ fetches' = fetches + 1
    /\ UNCHANGED <<symbolVars, ledgerVars, now, taskVars, about_to_close, status, about_at,
                   iterations_left, cycleVars, orders>>

\* sleep(next_open - Utc::now()).await, and the return of the closed path
SleepOpen ==
    /\ pc["main"] = "sleep_open"
    /\ IF ticker.clock.next_open < now
       THEN \* to_std() of a negative duration: unwrap panics
            /\ pc' = [pc EXCEPT !["main"] = "panicked"]
            /\ UNCHANGED <<symbolVars, now, ticker, status>>
       ELSE /\ now' = ticker.clock.next_open
            /\ now' <= MaxTime
            /\ ticker' = [ticker EXCEPT !.open_and_ready = TRUE]
            /\ status' = "Open"
            /\ pc' = [pc EXCEPT !["main"] = backend_open]
    /\ UNCHANGED <<symbolVars, ledgerVars, taskVars, about_to_close, fetches, about_at,
                   iterations_left, cycleVars, orders>>

\* --------------------------------------------------------- submit_order
MaxInflight == 2   \* orders awaiting their terminal update

Order(s, side, qty, by) == [symbol |-> s, side |-> side, qty |-> qty, by |-> by]

\* client.issue::<order::Post>(..).await.unwrap(): accepted, or the unwrap panics
SubmitOrder(o, next) ==
    /\ sent' = Append(sent, o)
    /\ \/ /\ BagCardinality(orders) < MaxInflight
          /\ orders' = orders (+) SetToBag({o})
          /\ pc' = [pc EXCEPT !["main"] = next]
       \/ /\ pc' = [pc EXCEPT !["main"] = "panicked"]
          /\ UNCHANGED orders

\* ------------------------------------------------------------ watch_all
RsiLow     == 30   \* rsi_range.start
RsiHigh    == 70   \* rsi_range.end
HoldLimit  == 2    \* hold_limit, in time units
ProfitLow  == 9    \* profit_limit.start, in tenths
ProfitHigh == 15   \* profit_limit.end, in tenths

\* what the broker returns for one symbol: its bars (empty, or their indicators)
\* and its latest trade price
MarketData ==
    [bars_empty : BOOLEAN, rsi : {25, 30, 70, 75}, lower : {2}, upper : {4},
     price : {1, 2, 3, 4, 5}]

\* derive(Ord) on Symbol
Rank(s) == IF s = "AMD" THEN 1 ELSE 2

\* symbols.sort()
sort(list) == SortSeq(list, LAMBDA a, b : Rank(a) < Rank(b))

Range(seq) == { seq[i] : i \in 1..Len(seq) }

\* the filter closure: keep symbols without an outstanding order
keep_symbol(s) == s \notin DOMAIN positions \/ ~positions[s].order_in_progress

all_owned(s) == IF s \in DOMAIN positions THEN positions[s].owned ELSE 0

held_too_long(s, t) ==
    s \in DOMAIN positions /\ t - positions[s].timestamp > HoldLimit

\* !profit_limit.contains(&(current_price / buy_in_price)), buy_in_price != 0
profit_limit_reached(s, price) ==
    /\ s \in DOMAIN positions
    /\ positions[s].buy_in_price # 0
    /\ ~(/\ ProfitLow * positions[s].buy_in_price <= 10 * price
         /\ 10 * price < ProfitHigh * positions[s].buy_in_price)

decide_at_threshold(s, d, t) ==
    IF all_owned(s) = 0 /\ d.rsi <= RsiLow /\ d.price < d.lower
    THEN <<Order(s, "buy", 1, "strategy")>>
    ELSE IF /\ all_owned(s) # 0
            /\ \/ held_too_long(s, t)
               \/ profit_limit_reached(s, d.price)
               \/ (d.rsi > RsiHigh /\ d.price > d.upper)
         THEN <<Order(s, "sell", all_owned(s), "strategy")>>
         ELSE <<>>

decide_without_hold_limit(s, d, t) ==
    IF all_owned(s) = 0 /\ d.rsi < RsiLow /\ d.price < d.lower
    THEN <<Order(s, "buy", 1, "strategy")>>
    ELSE IF /\ all_owned(s) # 0
            /\ \/ profit_limit_reached(s, d.price)
               \/ (d.rsi > RsiHigh /\ d.price > d.upper)
         THEN <<Order(s, "sell", all_owned(s), "strategy")>>
         ELSE <<>>

\* the if / else if of the loop body: the order to submit, if any
decide(s, d, t) ==
    IF all_owned(s) = 0 /\ d.rsi < RsiLow /\ d.price < d.lower
    THEN <<Order(s, "buy", 1, "strategy")>>
    ELSE IF /\ all_owned(s) # 0
            /\ \/ held_too_long(s, t)
               \/ profit_limit_reached(s, d.price)
               \/ (d.rsi > RsiHigh /\ d.price > d.upper)
         THEN <<Order(s, "sell", all_owned(s), "strategy")>>
         ELSE <<>>

\* watch_all is entered
WatchAllStart ==
    /\ pc["main"] = "watch_all"
    /\ to_filter' = watch
    /\ symbols' = <<>>
    /\ pc' = [pc EXCEPT !["main"] = "filter"]
    /\ UNCHANGED <<symbolVars, ledgerVars, now, taskVars, tickerVars, watch, all_bars, cycle_now,
                   cloned, to_sell, sent, orders>>

\* the filter looks one symbol up in the ledger
FilterNext ==
    /\ pc["main"] = "filter"
    /\ to_filter # <<>>
    /\ symbols' = IF keep_symbol(Head(to_filter))
                  THEN Append(symbols, Head(to_filter)) ELSE symbols
    /\ to_filter' = Tail(to_filter)
    /\ UNCHANGED <<symbolVars, ledgerVars, now, taskVars, pc, tickerVars, watch, all_bars, cycle_now,
                   cloned, to_sell, sent, orders>>

\* collect, sort, and the requests for bars and prices are sent
SortAndRequest ==
    /\ pc["main"] = "filter"
    /\ to_filter = <<>>
    /\ symbols' = sort(symbols)
    /\ pc' = [pc EXCEPT !["main"] = "fetch_data"]
    /\ UNCHANGED <<symbolVars, ledgerVars, now, taskVars, tickerVars, watch, to_filter, all_bars,
                   cycle_now, cloned, to_sell, sent, orders>>

\* futures::join!(all_latest_bars, all_latest_prices) completes; now = Instant::now()
FetchData ==
    /\ pc["main"] = "fetch_data"
    /\ all_bars' = Range(symbols)
    /\ cycle_now' = now
    /\ pc' = [pc EXCEPT !["main"] = "evaluate"]
    /\ UNCHANGED <<symbolVars, ledgerVars, now, taskVars, tickerVars, watch, to_filter, symbols,
                   cloned, to_sell, sent, orders>>

EvaluateKeepingKey(s, d) ==
    /\ pc["main"] = "evaluate"
    /\ s \in all_bars
    /\ all_bars' = all_bars
    /\ IF d.bars_empty \/ decide(s, d, cycle_now) = <<>>
       THEN UNCHANGED <<pc, sent, orders>>
       ELSE SubmitOrder(decide(s, d, cycle_now)[1], "evaluate")
    /\ UNCHANGED <<symbolVars, ledgerVars, now, taskVars, tickerVars, watch, to_filter, symbols,
                   cycle_now, cloned, to_sell>>

\* one iteration of the loop over all_bars
Evaluate(s, d) ==
    /\ pc["main"] = "evaluate"
    /\ s \in all_bars
    /\ all_bars' = all_bars \ {s}
    /\ IF d.bars_empty \/ decide(s, d, cycle_now) = <<>>
       THEN UNCHANGED <<symbolVars, pc, sent, orders>>
       ELSE SubmitOrder(decide(s, d, cycle_now)[1], "evaluate")
    /\ UNCHANGED <<symbolVars, ledgerVars, now, taskVars, tickerVars, watch, to_filter, symbols,
                   cycle_now, cloned, to_sell>>

\* the loop is over: watch_all returns to the main loop
WatchAllReturn ==
    /\ pc["main"] = "evaluate"
    /\ all_bars = {}
    /\ symbols' = <<>>
    /\ cycle_now' = 0
    /\ sent' = <<>>
    /\ pc' = [pc EXCEPT !["main"] = "wait"]
    /\ UNCHANGED <<symbolVars, ledgerVars, now, taskVars, tickerVars, watch, to_filter, all_bars,
                   cloned, to_sell, orders>>

\* ------------------------------------------- the AboutToClose arm of main
\* the filter |_| true
liquidation_filter(s) == TRUE

CancelAllThenStats ==
    /\ pc["main"] = "liq_cancel"
    /\ pc' = [pc EXCEPT !["main"] = "stats"]
    /\ UNCHANGED <<symbolVars, ledgerVars, now, taskVars, tickerVars, cycleVars, orders>>

\* backend.cancel_all_open_orders().await
CancelAll ==
    /\ pc["main"] = "liq_cancel"
    /\ pc' = [pc EXCEPT !["main"] = "liq_clone"]
    /\ UNCHANGED <<symbolVars, ledgerVars, now, taskVars, tickerVars, cycleVars, orders>>

\* sell_all_positions: the early return, or account.positions.clone()
SellAllStart ==
    /\ pc["main"] = "liq_clone"
    /\ IF DOMAIN positions = {}
       THEN /\ pc' = [pc EXCEPT !["main"] = "stats"]
            /\ UNCHANGED <<symbolVars, cloned, to_sell>>
       ELSE /\ cloned' = [s \in DOMAIN positions |-> positions[s].owned]
            /\ to_sell' = DOMAIN positions
            /\ pc' = [pc EXCEPT !["main"] = "liq_sell"]
    /\ UNCHANGED <<symbolVars, ledgerVars, now, taskVars, tickerVars, watch, to_filter, symbols,
                   all_bars, cycle_now, sent, orders>>

\* one iteration of the loop over the clone
SellNext(s) ==
    /\ pc["main"] = "liq_sell"
    /\ s \in to_sell
    /\ to_sell' = to_sell \ {s}
    /\ IF liquidation_filter(s)
       THEN SubmitOrder(Order(s, "sell", cloned[s], "liquidation"), "liq_sell")
       ELSE UNCHANGED <<symbolVars, pc, sent, orders>>
    /\ UNCHANGED <<symbolVars, ledgerVars, now, taskVars, tickerVars, watch, to_filter, symbols,
                   all_bars, cycle_now, cloned>>

\* the loop is over: sell_all_positions returns
SellAllReturn ==
    /\ pc["main"] = "liq_sell"
    /\ to_sell = {}
    /\ pc' = [pc EXCEPT !["main"] = "stats"]
    /\ UNCHANGED <<symbolVars, ledgerVars, now, taskVars, tickerVars, cycleVars, orders>>

\* backend.final_stats().await, the log line, and back to the top of the loop
FinalStats ==
    /\ pc["main"] = "stats"
    /\ cloned' = <<>>
    /\ sent' = <<>>
    /\ pc' = [pc EXCEPT !["main"] = "wait"]
    /\ UNCHANGED <<symbolVars, ledgerVars, now, taskVars, tickerVars, watch, to_filter, symbols,
                   all_bars, cycle_now, to_sell, orders>>

\* ------------------------------------------------------- specifications
\* the state once main has built the backend and the ticker and enters its loop;
\* the snapshot holds watched symbols only, so the startup sell_all_positions
\* (filter: not on the watch list) has submitted nothing
InitProcess ==
    /\ now = 0
    /\ snapshot = DOMAIN positions
    /\ terminal_filled = [s \in Symbols |-> 0]
    /\ errors_seen = 0
    /\ tasks = <<"spawned">>
    /\ handle = 1
    /\ mutex = "free"
    /\ about_to_close = FALSE
    /\ status = "none"
    /\ fetches = 1
    /\ about_at = 0
    /\ to_filter = <<>>
    /\ symbols = <<>>
    /\ all_bars = {}
    /\ cycle_now = 0
    /\ cloned = <<>>
    /\ to_sell = {}
    /\ sent = <<>>
    /\ orders = EmptyBag

Init ==
    /\ positions \in SnapshotLedgers(0)
    /\ watch = <<"MSFT", "AMD">>
    /\ ticker \in TickerNew(0)
    /\ iterations_left = MaxIterations
    /\ pc = [c \in Callers |-> IF c = "main" THEN "wait" ELSE "idle"]
    /\ InitProcess
    /\ NoConversion

WatcherNext ==
    \/ \E t \in 1..Len(tasks) : WatcherSubscribe(t)
    \/ \E t \in 1..Len(tasks) : OrderEvent(t)
    \/ \E t \in 1..Len(tasks) : WatcherStreamEnd(t)

SchedulerNext ==
    \/ TickerCall
    \/ Tick
    \/ SleepClose
    \/ Fetch
    \/ SleepOpen
    \/ BrokerFailure

OpenIfClosedNext(c) ==
    \/ OicLock(c)
    \/ OicCheck(c)
    \/ OicNew(c)
    \/ OicUnlock(c)

Next ==
    \/ WatcherNext
    \/ SchedulerNext
    \/ OpenIfClosedNext("main")
    \/ WatchAllStart
    \/ FilterNext
    \/ SortAndRequest
    \/ FetchData
    \/ \E s \in Symbols, d \in MarketData : Evaluate(s, d)
    \/ WatchAllReturn
    \/ CancelAll
    \/ SellAllStart
    \/ \E s \in Symbols : SellNext(s)
    \/ SellAllReturn
    \/ FinalStats

Spec == Init /\ [][Next]_vars

\* one strategy cycle racing with the watcher: an Open decision has been returned
\* and open_if_closed is over; the ledger is any the watcher has made by then
InitCycleRest ==
    /\ positions \in Ledgers(0)
    /\ ticker \in { [k EXCEPT !.open_and_ready = TRUE] :
                      k \in { n \in TickerNew(0) : n.clock.open /\ n.clock.next_close = 5 } }
    /\ iterations_left = 0
    /\ pc = [c \in Callers |-> IF c = "main" THEN "watch_all" ELSE "idle"]
    /\ now \in {0, HoldLimit + 1}
    /\ snapshot = {}
    /\ terminal_filled = [s \in Symbols |-> 0]
    /\ errors_seen = 0
    /\ tasks = <<"running">>
    /\ handle = 1
    /\ mutex = "free"
    /\ about_to_close = FALSE
    /\ status = "Open"
    /\ fetches = 1
    /\ about_at = 0
    /\ to_filter = <<>>
    /\ symbols = <<>>
    /\ all_bars = {}
    /\ cycle_now = 0
    /\ cloned = <<>>
    /\ to_sell = {}
    /\ sent = <<>>
    /\ orders = EmptyBag
    /\ NoConversion

InitCycle ==
    /\ watch = <<"MSFT", "AMD">>
    /\ InitCycleRest

NextCycle ==
    \/ \E t \in 1..Len(tasks) : OrderEvent(t)
    \/ WatchAllStart
    \/ FilterNext
    \/ SortAndRequest
    \/ FetchData
    \/ \E s \in Symbols, d \in MarketData : Evaluate(s, d)
    \/ WatchAllReturn

SpecCycle == InitCycle /\ [][NextCycle]_vars

\* the same cycle with a watch list in which two raw tickers were converted to
\* the same Symbol (all_top_stocks removes duplicates before Symbol::from)
InitCycleTwice ==
    /\ watch = <<"MSFT", "AMD", "MSFT">>
    /\ InitCycleRest

SpecCycleTwice == InitCycleTwice /\ [][NextCycle]_vars

\* the scheduler with an empty watch list and an empty account: every strategy
\* cycle and every liquidation is empty, and calls take any amount of time
InitTicker ==
    /\ positions = <<>>
    /\ watch = <<>>
    /\ ticker \in TickerNew(0)
    /\ iterations_left = MaxTickerIterations
    /\ pc = [c \in Callers |-> IF c = "main" THEN "wait" ELSE "idle"]
    /\ InitProcess
    /\ NoConversion

NextTicker ==
    \/ SchedulerNext
    \/ Advance
    \/ \E t \in 1..Len(tasks) : WatcherSubscribe(t)
    \/ \E t \in 1..Len(tasks) : WatcherStreamEnd(t)
    \/ OpenIfClosedNext("main")
    \/ WatchAllStart
    \/ SortAndRequest
    \/ FetchData
    \/ WatchAllReturn
    \/ CancelAll
    \/ SellAllStart
    \/ FinalStats

SpecTicker == InitTicker /\ [][NextTicker]_vars

\* the scheduler with the main task always scheduled again: the runtime polls a
\* ready task, and the watcher Mutex has no other taker here
SpecTickerFair == SpecTicker /\ WF_vars(OpenIfClosedNext("main"))

\* the watcher on its own: the feed carries updates of any order of the account
InitWatcher ==
    /\ positions \in SnapshotLedgers(0)
    /\ watch = <<>>
    /\ ticker \in { k \in TickerNew(0) : k.clock.open /\ k.clock.next_close = 5 }
    /\ iterations_left = 0
    /\ pc = [c \in Callers |-> "idle"]
    /\ InitProcess
    /\ NoConversion

NextWatcher ==
    \/ \E t \in 1..Len(tasks) : WatcherSubscribe(t)
    \/ \E t \in 1..Len(tasks) : FeedEvent(t)
    \/ \E t \in 1..Len(tasks), level \in ErrorLevels : FeedError(t, level)
    \/ \E t \in 1..Len(tasks) : WatcherStreamEnd(t)

SpecWatcher == InitWatcher /\ [][NextWatcher]_vars

\* the supervisor on its own: tasks call open_if_closed concurrently
NextSup ==
    \/ \E t \in 1..Len(tasks) : WatcherSubscribe(t)
    \/ \E t \in 1..Len(tasks) : WatcherStreamEnd(t)
    \/ \E c \in Callers : OicCall(c)
    \/ \E c \in Callers : OpenIfClosedNext(c)

SpecSup == InitWatcher /\ [][NextSup]_vars

\* the AboutToClose arm racing with the watcher: AboutToClose has been returned
InitLiquidation ==
    /\ positions \in Ledgers(0)
    /\ watch = <<"MSFT", "AMD">>
    /\ ticker \in { closing(k) : k \in { n \in TickerNew(0) : n.clock.open } }
    /\ iterations_left = 0
    /\ pc = [c \in Callers |-> IF c = "main" THEN "liq_cancel" ELSE "idle"]
    /\ now = 0
    /\ snapshot = {}
    /\ terminal_filled = [s \in Symbols |-> 0]
    /\ errors_seen = 0
    /\ tasks = <<"running">>
    /\ handle = 1
    /\ mutex = "free"
    /\ about_to_close = TRUE
    /\ status = "AboutToClose"
    /\ fetches = 1
    /\ about_at = 1
    /\ to_filter = <<>>
    /\ symbols = <<>>
    /\ all_bars = {}
    /\ cycle_now = 0
    /\ cloned = <<>>
    /\ to_sell = {}
    /\ sent = <<>>
    /\ orders = EmptyBag
    /\ NoConversion

NextLiquidation ==
    \/ \E t \in 1..Len(tasks) : OrderEvent(t)
    \/ BrokerFailure
    \/ CancelAll
    \/ SellAllStart
    \/ \E s \in Symbols : SellNext(s)
    \/ SellAllReturn
    \/ FinalStats

SpecLiquidation == InitLiquidation /\ [][NextLiquidation]_vars

\* the watcher, its feed, and one task that calls open_if_closed
Repairers == {"c1"}

NextRestart ==
    \/ \E t \in 1..Len(tasks) : WatcherSubscribe(t)
    \/ \E t \in 1..Len(tasks) : FeedEvent(t)
    \/ \E t \in 1..Len(tasks) : WatcherStreamEnd(t)
    \/ \E c \in Repairers : OicCall(c)
    \/ \E c \in Repairers : OpenIfClosedNext(c)

SpecRestart == InitWatcher /\ [][NextRestart]_vars

\* Symbol::from on its own: any raw ticker, converted once
InitSymbol ==
    /\ positions = <<>>
    /\ watch = <<>>
    /\ ticker \in { k \in TickerNew(0) : k.clock.open /\ k.clock.next_close = 5 }
    /\ iterations_left = 0
    /\ pc = [c \in Callers |-> "idle"]
    /\ InitProcess
    /\ raw_ticker \in RawTickers
    /\ converted = NotConverted

NextSymbol == SymbolFrom

SpecSymbol == InitSymbol /\ [][NextSymbol]_vars

\* ================================================================ claims

\* C1: for a symbol absent from the startup snapshot, owned equals the sum of
\* the filled_quantity of the terminal updates applied to it; non-terminal
\* updates, the one that creates the entry included, contribute nothing.
C1_OwnedIsTerminalSum ==
    \A s \in DOMAIN positions \ snapshot : positions[s].owned = terminal_filled[s]

\* C2: an order the strategy has submitted and whose terminal update has not
\* been applied has its symbol in the ledger with order_in_progress = true,
\* from the moment it is dispatched.
C2_InFlightIsFlagged ==
    \A o \in BagToSet(orders) :
        o.by = "strategy" =>
            /\ o.symbol \in DOMAIN positions
            /\ positions[o.symbol].order_in_progress

\* C3: the update the watcher applies leaves its symbol's position with
\* order_in_progress = ~is_terminal(status), on insert and on modify.
C3_FlagIsNotTerminal ==
    [][\A t \in 1..Len(tasks), e \in Events :
          WatcherApply(t, e) =>
              positions'[e.symbol].order_in_progress = ~is_terminal(e.status)]_vars

StrategyInFlight(s) ==
    LET mine == { o \in BagToSet(orders) : o.symbol = s /\ o.by = "strategy" }
    IN  BagCardinality([o \in mine |-> CopiesIn(o, orders)])

\* C4: per symbol, at most one order submitted by the strategy awaits its
\* terminal update.
C4_AtMostOneInFlight == \A s \in Symbols : StrategyInFlight(s) <= 1

\* C5: when AboutToClose is returned, the decision before it was not
\* AboutToClose, and the closed path has fetched a clock since the last
\* AboutToClose.
C5_AboutToCloseOncePerClock ==
    [][(pc["main"] = "tick" /\ pc'["main"] # "tick" /\ status' = "AboutToClose")
          => (status # "AboutToClose" /\ about_at < fetches)]_vars

C5_Witness ==
    /\ pc["main"] = "liq_cancel"
    /\ status = "AboutToClose"
    /\ iterations_left = MaxTickerIterations - 3
    /\ fetches = 2
    /\ ticker.clock.open = FALSE
    /\ about_at = 2
    /\ now <= 4

\* C6: a call made with open_and_ready reaches its tick with about_to_close =
\* (next_close - now <= 2 * period), for every now, and then returns
\* AboutToClose with open_and_ready false, or Open with open_and_ready true.
C6_AboutToCloseWithinTwoTicks ==
    [][/\ (pc["main"] = "wait" /\ ticker.open_and_ready /\ pc'["main"] # "wait")
          => /\ pc'["main"] = "tick"
             /\ about_to_close' = (ticker.clock.next_close - now <= 2 * Period)
       /\ (pc["main"] = "tick" /\ pc'["main"] # "tick")
          => IF about_to_close
             THEN status' = "AboutToClose" /\ ~ticker'.open_and_ready
             ELSE status' = "Open" /\ ticker'.open_and_ready]_vars

\* C7: the handle is replaced and a task is spawned only when the task of the
\* handle has finished; a call that finds it running goes on to release the
\* lock with handle and tasks as they were.
C7_RunningIsNoOp ==
    [][/\ (handle' # handle \/ Len(tasks') # Len(tasks)) => tasks[handle] = "finished"
       /\ \A c \in Callers :
            (pc[c] = "oic_check" /\ pc'[c] # "oic_check" /\ tasks[handle] # "finished")
               => (pc'[c] = "oic_unlock" /\ handle' = handle /\ tasks' = tasks)]_vars

C7_Witness ==
    /\ Len(tasks) = 1
    /\ tasks[1] = "running"
    /\ pc["c1"] = "oic_unlock"
    /\ pc["c2"] = "oic_lock"

\* C8: at most one watcher task is alive (spawned or running) at any time.
C8_OneWatcher ==
    Cardinality({ t \in 1..Len(tasks) : tasks[t] # "finished" }) <= 1

C8_Witness ==
    /\ Len(tasks) = 2
    /\ tasks[1] = "finished"
    /\ tasks[2] = "running"
    /\ handle = 2
    /\ pc["c1"] = "oic_unlock"
    /\ pc["c2"] = "oic_lock"

RequestsFor(s) == { i \in 1..Len(sent) : sent[i].symbol = s }

\* C9: once the liquidation loop is over, exactly one sell of the cloned owned
\* quantity has been sent for every position with owned > 0, and nothing for a
\* position with owned = 0.
C9_LiquidationOrders ==
    (pc["main"] = "stats" /\ status = "AboutToClose") =>
        \A s \in Symbols :
            IF s \in DOMAIN cloned /\ cloned[s] > 0
            THEN /\ Cardinality(RequestsFor(s)) = 1
                 /\ \A i \in RequestsFor(s) :
                        sent[i].side = "sell" /\ sent[i].qty = cloned[s]
            ELSE RequestsFor(s) = {}

\* C10: the loop iteration for a symbol with bars and no holding sends a buy of
\* quantity 1 for that symbol exactly when rsi < rsi_low and price < lower
\* band, and sends nothing else.
C10_BuyDecision ==
    [][\A s \in Symbols, d \in MarketData :
          (/\ Evaluate(s, d)
           /\ ~d.bars_empty
           /\ (s \in DOMAIN positions => positions[s].owned = 0))
          => sent' = IF d.rsi < RsiLow /\ d.price < d.lower
                     THEN Append(sent, [symbol |-> s, side |-> "buy", qty |-> 1,
                                        by |-> "strategy"])
                     ELSE sent]_vars

C10_Witness ==
    /\ pc["main"] = "evaluate"
    /\ "AMD" \in DOMAIN positions
    /\ positions["AMD"].owned = 0
    /\ "MSFT" \notin DOMAIN positions
    /\ sent = <<[symbol |-> "AMD", side |-> "buy", qty |-> 1, by |-> "strategy"]>>
    /\ all_bars = {}

\* the profit ratio current_price / buy_in_price lies in [low, high), in tenths
RatioInBand(price, buy) ==
    ProfitLow * buy <= 10 * price /\ 10 * price < ProfitHigh * buy

HeldSymbol(s) == s \in DOMAIN positions /\ positions[s].owned > 0

\* C11 as stated: the loop iteration for a symbol with bars and owned > 0 sends
\* a sell of the full owned quantity exactly when the position was held longer
\* than the hold limit, or the profit ratio is not in the band, or rsi > rsi_high
\* and price > upper band; otherwise it sends nothing.
C11_SellDecision_Stated ==
    [][\A s \in Symbols, d \in MarketData :
          (Evaluate(s, d) /\ ~d.bars_empty /\ HeldSymbol(s))
          => sent' = IF \/ cycle_now - positions[s].timestamp > HoldLimit
                        \/ ~RatioInBand(d.price, positions[s].buy_in_price)
                        \/ (d.rsi > RsiHigh /\ d.price > d.upper)
                     THEN Append(sent, [symbol |-> s, side |-> "sell",
                                        qty |-> positions[s].owned, by |-> "strategy"])
                     ELSE sent]_vars

\* C11, amended: as stated, with the profit ratio a trigger only for a position
\* whose buy_in_price is not zero.
C11_SellDecision ==
    [][\A s \in Symbols, d \in MarketData :
          (Evaluate(s, d) /\ ~d.bars_empty /\ HeldSymbol(s))
          => sent' = IF \/ cycle_now - positions[s].timestamp > HoldLimit
                        \/ /\ positions[s].buy_in_price # 0
                           /\ ~RatioInBand(d.price, positions[s].buy_in_price)
                        \/ (d.rsi > RsiHigh /\ d.price > d.upper)
                     THEN Append(sent, [symbol |-> s, side |-> "sell",
                                        qty |-> positions[s].owned, by |-> "strategy"])
                     ELSE sent]_vars

C11_Witness ==
    /\ pc["main"] = "evaluate"
    /\ HeldSymbol("AMD")
    /\ positions["AMD"].owned = 2
    /\ positions["AMD"].buy_in_price # 0
    /\ cycle_now - positions["AMD"].timestamp <= HoldLimit
    /\ sent = <<[symbol |-> "AMD", side |-> "sell", qty |-> 2, by |-> "strategy"]>>

\* C12: a submission attempted by the strategy cycle, accepted or not, leaves
\* the cycle running: the loop over the symbols goes on, the main loop is not
\* ended.
C12_FailureConfined ==
    [][(pc["main"] = "evaluate" /\ sent' # sent) => pc'["main"] = "evaluate"]_vars

\* C13: an error item of the stream leaves the ledger, the task and the handle
\* as they were, and a running watcher that has taken error items still takes
\* the next update of the stream.
C13_FeedErrorIsSkipped ==
    /\ [][errors_seen' # errors_seen
            => (positions' = positions /\ tasks' = tasks /\ handle' = handle)]_vars
    /\ [](\A t \in 1..Len(tasks) :
            (errors_seen > 0 /\ tasks[t] = "running") => ENABLED FeedEvent(t))

C13_Witness ==
    /\ errors_seen = MaxErrors
    /\ tasks = <<"running">>
    /\ "MSFT" \in DOMAIN positions \ snapshot
    /\ terminal_filled["MSFT"] > 0

\* C14: a watcher task that has finished (end of stream, failed subscribe) stays
\* finished and leaves the main loop running; while no task is alive the ledger
\* does not change; a task is started only by open_if_closed, only when the
\* task of the handle has finished, and starting it leaves the ledger as it was.
C14_NoSelfRestart ==
    [][/\ \A t \in 1..Len(tasks) : tasks[t] = "finished" => tasks'[t] = "finished"
       /\ tasks' # tasks => pc'["main"] = pc["main"]
       /\ (\A t \in 1..Len(tasks) : tasks[t] = "finished") => positions' = positions
       /\ Len(tasks') # Len(tasks)
            => /\ \E c \in Callers : pc[c] = "oic_new" /\ pc'[c] = "oic_unlock"
               /\ tasks[handle] = "finished"
               /\ Len(tasks') = Len(tasks) + 1
               /\ handle' = Len(tasks')
               /\ positions' = positions]_vars

C14_Witness ==
    /\ tasks = <<"finished", "running">>
    /\ handle = 2
    /\ snapshot # {}
    /\ DOMAIN positions \ snapshot # {}
    /\ pc["c1"] = "idle"

\* the whole of one update applied to a symbol's entry (or to its absence)
AppliedInFull(s, e) ==
    IF s \in DOMAIN positions
    THEN IF e.status \in {"filled", "canceled", "rejected"}
         THEN [owned |-> positions[s].owned + e.filled_quantity,
               buy_in_price |-> e.average_fill_price,
               timestamp |-> now,
               order_in_progress |-> TRUE]
         ELSE [positions[s] EXCEPT !.order_in_progress = FALSE]
    ELSE [owned |-> e.filled_quantity,
          buy_in_price |-> e.average_fill_price,
          timestamp |-> now,
          order_in_progress |-> e.status \in {"filled", "canceled", "rejected"}]

C16_OpenClockIsFatal ==
    [][/\ (pc["main"] = "fetch" /\ fetches' # fetches /\ ticker'.clock.open)
            => /\ pc'["main"] = "panicked"
               /\ status' = status
               /\ ~ticker'.open_and_ready
               /\ now' = now
       /\ pc["main"] = "panicked"
            => (pc'["main"] = "panicked" /\ ticker' = ticker /\ status' = status)]_vars

C16_Witness ==
    /\ pc["main"] = "panicked"
    /\ fetches = 2
    /\ ticker.clock.open
    /\ ~ticker.open_and_ready
    /\ status = "AboutToClose"

CyclePcs == {"watch_all", "filter", "fetch_data", "evaluate"}

RepairPcs == {"oic_lock", "oic_check", "oic_new", "oic_unlock"}

\* C17: an Open decision is followed by open_if_closed, open_if_closed by one
\* strategy cycle, and the cycle by the next call of the ticker; the repair and
\* the cycle run on Open decisions only.
C17_OpenRunsRepairThenCycle ==
    [][/\ (pc["main"] \in {"tick", "sleep_open"} /\ status' = "Open"
             /\ pc'["main"] \notin {"tick", "sleep_open", "panicked"})
            => pc'["main"] = "oic_lock"
       /\ (pc'["main"] = "oic_lock" /\ pc["main"] # "oic_lock")
            => pc["main"] \in {"tick", "sleep_open"}
       /\ (pc["main"] = "oic_unlock" /\ pc'["main"] # "oic_unlock")
            => pc'["main"] = "watch_all"
       /\ (pc'["main"] = "watch_all" /\ pc["main"] # "watch_all")
            => pc["main"] = "oic_unlock"
       /\ (pc["main"] = "evaluate" /\ pc'["main"] \notin {"evaluate", "panicked"})
            => pc'["main"] = "wait"
       /\ pc'["main"] \in CyclePcs \cup RepairPcs => status' = "Open"]_vars

C17_Witness ==
    /\ pc["main"] = "evaluate"
    /\ status = "Open"
    /\ tasks = <<"finished", "spawned">>
    /\ handle = 2
    /\ iterations_left = MaxTickerIterations - 1

\* C18: on AboutToClose the main loop cancels, then runs sell_all_positions,
\* then fetches the stats, each once and in that order, before it asks the
\* ticker again; liquidation sells are sent only inside sell_all_positions,
\* which starts after cancel_all_open_orders has returned.
C18_CancelSellStats ==
    [][/\ (pc'["main"] = "liq_clone" /\ pc["main"] # "liq_clone")
            => pc["main"] = "liq_cancel"
       /\ (pc'["main"] = "liq_sell" /\ pc["main"] # "liq_sell")
            => pc["main"] = "liq_clone"
       /\ (pc'["main"] = "stats" /\ pc["main"] # "stats")
            => \/ pc["main"] = "liq_clone" /\ DOMAIN positions = {}
               \/ pc["main"] = "liq_sell" /\ to_sell = {}
       /\ (pc["main"] \in {"liq_cancel", "liq_clone", "liq_sell", "stats"}
             /\ pc'["main"] = "wait")
            => pc["main"] = "stats"
       /\ (status = "AboutToClose" /\ Len(sent') > Len(sent))
            => /\ pc["main"] = "liq_sell"
               /\ sent'[Len(sent')].side = "sell"
               /\ sent'[Len(sent')].by = "liquidation"
       /\ pc'["main"] \in {"liq_cancel", "liq_clone"} => sent' = <<>>]_vars

C18_Witness ==
    /\ pc["main"] = "stats"
    /\ status = "AboutToClose"
    /\ Len(sent) = 2
    /\ DOMAIN cloned = {"AMD", "MSFT"}
    /\ \A i \in 1..2 : sent[i].by = "liquidation"

\* C19: a call made with open_and_ready that returns AboutToClose returns it at
\* a time strictly before the stored next_close.
C19_AboutToCloseBeforeClose ==
    [][(pc["main"] = "tick" /\ pc'["main"] # "tick" /\ status' = "AboutToClose")
          => now' < ticker.clock.next_close]_vars

\* C20: a call on the closed path sleeps until after the stored next_close
\* before it fetches exactly when (clock.open or now >= next_open) and
\* now < next_close, and then fetches at a time later than next_close;
\* otherwise it fetches without that sleep.
C20_FetchAfterClose ==
    [][/\ (pc["main"] = "wait" /\ ~ticker.open_and_ready /\ pc'["main"] # "wait")
            => pc'["main"] =
                 IF /\ ticker.clock.open \/ now >= ticker.clock.next_open
                    /\ now < ticker.clock.next_close
                 THEN "sleep_close" ELSE "fetch"
       /\ (pc["main"] = "sleep_close" /\ pc'["main"] = "fetch")
            => now' > ticker.clock.next_close]_vars

\* C21: Open is returned with open_and_ready true at a time before the stored
\* next_close, and by the closed path not before the fetched next_open.
C21_OpenInsideSession ==
    [][(pc["main"] \in {"tick", "sleep_open"} /\ status' = "Open"
          /\ pc'["main"] \notin {"tick", "sleep_open", "panicked"})
          => /\ ticker'.open_and_ready
             /\ now' < ticker'.clock.next_close
             /\ pc["main"] = "sleep_open" => now' >= ticker.clock.next_open]_vars

C21_Witness ==
    /\ pc["main"] = "oic_lock"
    /\ status = "Open"
    /\ fetches = 2
    /\ ~ticker.clock.open
    /\ now = ticker.clock.next_open
    /\ now > 0
    /\ ticker.open_and_ready

\* C22: the ticker starts with open_and_ready = clock.open after one fetch;
\* the stored clock changes, and a clock is fetched, only in the closed path's
\* fetch, made with open_and_ready false, which stores the broker's clock whole.
C22_ClockReplacedOnlyByFetch ==
    /\ ticker.open_and_ready = ticker.clock.open
    /\ fetches = 1
    /\ [][(ticker'.clock # ticker.clock \/ fetches' # fetches)
            => /\ pc["main"] = "fetch"
               /\ ~ticker.open_and_ready
               /\ fetches' = fetches + 1
               /\ ticker'.clock \in BrokerClocks(now)]_vars

C22_Witness ==
    /\ pc["main"] = "oic_lock"
    /\ status = "Open"
    /\ ticker.open_and_ready
    /\ ticker.clock.open
    /\ fetches = 1
    /\ iterations_left = MaxTickerIterations - 2

Flagged(s) == s \in DOMAIN positions /\ positions[s].order_in_progress

\* the part of C23 on the filter: the filter drops exactly the symbols whose
\* entry has order_in_progress, data is requested for the kept symbols only,
\* each once, and orders are sent for kept symbols only.
FilterExcludesFlagged ==
    [][/\ (pc["main"] = "filter" /\ to_filter # <<>> /\ to_filter' # to_filter)
            => symbols' = IF Flagged(Head(to_filter))
                          THEN symbols ELSE Append(symbols, Head(to_filter))
       /\ (pc["main"] = "fetch_data" /\ pc'["main"] = "evaluate")
            => /\ all_bars' = { symbols[i] : i \in 1..Len(symbols) }
               /\ \A i, j \in 1..Len(symbols) : i < j => Rank(symbols[i]) < Rank(symbols[j])
       /\ (pc["main"] = "evaluate" /\ Len(sent') > Len(sent))
            => sent'[Len(sent')].symbol \in all_bars \ all_bars']_vars

\* C23: the filter part, and the kept symbols are evaluated in sorted order.
C23_FilteredAndSorted ==
    /\ FilterExcludesFlagged
    /\ [][\A s \in Symbols, d \in MarketData :
             Evaluate(s, d) => \A u \in all_bars : Rank(s) <= Rank(u)]_vars

QuietPcs == {"sleep_close", "fetch", "sleep_open", "liq_cancel", "liq_clone",
             "liq_sell", "stats"}

\* C24: in the handling of an Open decision, a check that finds the watcher
\* finished spawns a new task and makes it the handle, so a watcher finished
\* when the handling starts is replaced before the handling ends; while the
\* ticker sleeps or AboutToClose is handled, no task is spawned and the handle
\* stays.
C24_RepairedOnOpen ==
    /\ [][/\ (pc["main"] = "oic_check" /\ pc'["main"] # "oic_check"
                /\ tasks[handle] = "finished")
               => pc'["main"] = "oic_new"
          /\ (pc["main"] = "oic_new" /\ pc'["main"] # "oic_new")
               => /\ tasks' = Append(tasks, "spawned")
                  /\ handle' = Len(tasks')
          /\ pc["main"] \in QuietPcs
               => (Len(tasks') = Len(tasks) /\ handle' = handle)]_vars
    /\ (status = "Open" /\ pc["main"] = "oic_lock" /\ tasks[handle] = "finished")
          ~> (tasks[handle] # "finished")

C24_Witness ==
    /\ pc["main"] = "oic_unlock"
    /\ status = "Open"
    /\ tasks = <<"finished", "spawned">>
    /\ handle = 2
    /\ fetches = 1

\* C25: no step removes an entry from the ledger, and a kept entry may have
\* owned = 0.
C25_EntriesStay ==
    [][DOMAIN positions \subseteq DOMAIN positions']_vars

C25_Witness ==
    /\ pc["main"] = "stats"
    /\ "AMD" \in DOMAIN positions
    /\ positions["AMD"].owned = 0
    /\ cloned["AMD"] = 0
    /\ Len(sent) = 1
    /\ orders = EmptyBag

\* C26: the timestamp of an entry never decreases, and it changes only in a
\* step of the watcher that applies a terminal update of that symbol; an entry
\* is created with the time of its creation.
C26_TimestampAdvances ==
    [][/\ \A s \in DOMAIN positions :
            /\ s \in DOMAIN positions'
            /\ positions'[s].timestamp >= positions[s].timestamp
            /\ positions'[s].timestamp # positions[s].timestamp
                 => /\ pc' = pc
                    /\ sent' = sent
                    /\ \E t \in 1..Len(tasks), e \in Events :
                          /\ e.symbol = s
                          /\ e.status \in {"filled", "canceled", "rejected"}
                          /\ WatcherApply(t, e)
       /\ \A s \in DOMAIN positions' \ DOMAIN positions :
            positions'[s].timestamp = now]_vars

C26_Witness ==
    /\ now = HoldLimit + 1
    /\ "AMD" \in DOMAIN positions
    /\ positions["AMD"].timestamp = now
    /\ positions["AMD"].buy_in_price = 0
    /\ positions["AMD"].owned = 1
    /\ "MSFT" \in DOMAIN positions
    /\ positions["MSFT"].timestamp = 0
    /\ orders = EmptyBag
    /\ Len(sent) = 1

\* C27: Symbol::from returns a Crypto exactly when the raw ticker with its
\* non-alphabetic characters removed is one of the known crypto tickers; a
\* ticker that only contains one as a proper substring is a Stock.
C27_CryptoIffMember ==
    converted.kind # "none" =>
        /\ converted.ticker = SelectSeq(raw_ticker, LAMBDA ch : ch # ".")
        /\ converted.kind = "Crypto" <=> converted.ticker \in KNOWN_CRYPTOS

\* C28: whenever wait_for_open_or_tick is entered with open_and_ready true,
\* now <= clock.next_close: the remaining time is never negative and the open
\* path does not fail, however long the cycle and the tick wait before it took.
C28_OpenPathNeverFails ==
    [][(pc["main"] = "wait" /\ ticker.open_and_ready /\ pc'["main"] # "wait")
          => /\ now <= ticker.clock.next_close
             /\ pc'["main"] # "panicked"]_vars

\* C29: owned is the net holding: when the watcher applies the terminal update
\* of a sell order of a symbol, that position's owned goes down by the filled
\* quantity (it does not grow), and it is never negative.
C29_SellFillReducesOwned ==
    [][\A s \in DOMAIN positions :
         (\E o \in BagToSet(orders) :
             /\ o.symbol = s
             /\ o.side = "sell"
             /\ orders' # orders
             /\ orders' = orders (-) SetToBag({o}))
         => /\ s \in DOMAIN positions'
            /\ positions'[s].owned <= positions[s].owned
            /\ positions'[s].owned >= 0]_vars

\* C30: within one strategy cycle at most one order is submitted per symbol,
\* also when the watch list holds the same Symbol twice: each key of all_bars
\* is evaluated once, and an evaluation submits at most one order, for its key.
C30_OneOrderPerSymbol ==
    /\ [](\A i, j \in 1..Len(sent) : sent[i].symbol = sent[j].symbol => i = j)
    /\ [][pc["main"] = "evaluate" =>
            /\ all_bars' \subseteq all_bars
            /\ (Len(sent') > Len(sent)) =>
                 \E s \in all_bars \ all_bars' :
                    /\ Len(sent') = Len(sent) + 1
                    /\ sent'[Len(sent')].symbol = s
                    /\ all_bars \ all_bars' = {s}]_vars

C30_Witness ==
    /\ pc["main"] = "evaluate"
    /\ symbols = <<"AMD", "MSFT", "MSFT">>
    /\ all_bars = {}
    /\ Len(sent) = 2
    /\ sent[1].symbol = "MSFT"
    /\ sent[2].symbol = "AMD"

====
